---------------------------- MODULE Spec2Model ----------------------------
(***************************************************************************)
(* Model of the streaming spectral engine of dsp_lab: the power-of-two     *)
(* ring buffer (src/src/core/mod.rs), the sliding transform with its       *)
(* reconstruction function and the block transform engine                  *)
(* (src/src/core/dft.rs).                                                  *)
(*                                                                         *)
(* Samples are f64 in the code.  The model draws them from a small set of  *)
(* integers and computes in exact arithmetic.  usize arithmetic keeps a    *)
(* power-of-two width: a subtraction that goes below zero either panics    *)
(* (build with overflow checks, the profile of `cargo test`) or wraps      *)
(* (release profile); the profile is fixed when the program is built, so   *)
(* it is a variable chosen in the initial state.                           *)
(***************************************************************************)
EXTENDS Integers, Sequences, FiniteSets, TLC

VARIABLES
    CAP,              \* const generic CAP of RawRingBuffer / SafeRawRingBuffer
    kind,             \* which constructor ran: "none", "raw", "safe", or its failure
    buffer,           \* RawRingBuffer.buffer, slots 0..CAP-1
    write_ptr,        \* RawRingBuffer.write_ptr
    pushed,           \* history: every value pushed so far, oldest first
    ret,              \* what the last operation returned (or how it failed)
    overflow_checks,  \* build profile: TRUE = arithmetic overflow panics
    sdft,             \* SlidingDft: [size, input_buf, frame_buf]
    inputs,           \* history: every sample given to SlidingDft::step, oldest first
    resized,          \* history: set_size changed the length after the stream began
    n_set_size,       \* history: how many times set_size was called
    dft_ret,          \* what the last SlidingDft / inverse_dft call returned
    frame,            \* the argument of a stand-alone inverse_dft call
    inv_ret,          \* what that call returned
    fft_core,         \* FftCore: the fields of the struct
    fft_ret,          \* what the last FftCore call returned
    fed,              \* history: samples fed to FftCore since it was fresh, -1 when not counted
    procs,            \* the processes a chain can pipe through, each [kind, z]
    chain,            \* the ProcessChain in hand: [alive, bus_value]
    chained,          \* history: [input, procs0, piped, total] of the chain in hand
    chain_ret,        \* what the last ProcessChain / chain! call returned
    delay,            \* DelayLine: [vector, head_offsets, head_gains, interp_mode]
    delay_steps,      \* history: how many times DelayLine::step completed
    delay_ret,        \* what the last DelayLine call returned
    rtoggle,          \* RandomToggle: [p_up, p_down, rng, toggle]
    since,            \* history: steps of the toggle [set: since p_up / p_down were last set, total]
    toggle_ret        \* what the last RandomToggle call returned

ringVars == <<CAP, kind, buffer, write_ptr, pushed, ret>>

dftVars == <<sdft, inputs, resized, n_set_size, dft_ret>>

invVars == <<frame, inv_ret>>

fftVars == <<fft_core, fft_ret, fed>>

chainVars == <<procs, chain, chained, chain_ret>>

\* the components outside core::RawRingBuffer and core::dft
delayVars == <<delay, delay_steps, delay_ret>>

toggleVars == <<rtoggle, since, toggle_ret>>

extVars == <<chainVars, delayVars, toggleVars>>

vars == <<CAP, kind, buffer, write_ptr, pushed, ret, overflow_checks,
          sdft, inputs, resized, n_set_size, dft_ret, frame, inv_ret, fft_core, fft_ret, fed,
          procs, chain, chained, chain_ret, delay, delay_steps, delay_ret,
          rtoggle, since, toggle_ret>>

---------------------------------------------------------------------------
(* Bounds of the model *)

\* capacities 0..MaxCap are tried at construction
MaxCap == 16

\* at most MaxPushes values are pushed in one behaviour
MaxPushes == 5

\* samples are drawn from 0..MaxSample (0 is the fill value 0.0)
MaxSample == 1

\* lookups use ages 0..CAP+ExtraOffs, so that ages >= CAP are tried
ExtraOffs == 2

\* width of usize in the model, in bits (64 on the usual targets; every
\* capacity of the model divides 2^UsizeBits, as every power-of-two usize
\* capacity divides 2^64)
UsizeBits == 8

UsizeMod == 2 ^ UsizeBits

Samples == 0 .. MaxSample

---------------------------------------------------------------------------
(* usize helpers *)

RECURSIVE BitAnd(_, _)
\* a & b on non-negative integers
BitAnd(a, b) ==
    IF a = 0 \/ b = 0 THEN 0
    ELSE (IF a % 2 = 1 /\ b % 2 = 1 THEN 1 ELSE 0) + 2 * BitAnd(a \div 2, b \div 2)

\* a - b in usize, wrapping (release profile)
WrappingSub(a, b) == (a - b + UsizeMod) % UsizeMod

\* outcome of an operation: kind is "ok", "assert" (assert! failed),
\* "overflow" (arithmetic overflow panic), "some" / "none" (Option), "unit"
Outcome(k, v) == [kind |-> k, val |-> v]

IsPanic(o) == o.kind \in {"assert", "overflow"}

---------------------------------------------------------------------------
(* RawRingBuffer *)

\* the power-of-two test without its zero check
CapIsPowerOfTwo_NoZeroCheck(cap) == BitAnd(cap, cap - 1) = 0

\* the power-of-two test of both constructors; && short-circuits, so
\* CAP - 1 is not evaluated for CAP = 0
CapIsPowerOfTwo(cap) == (cap # 0) /\ (BitAnd(cap, cap - 1) = 0)

\* buffer: [0.0; CAP]
EmptyBuffer(cap) == [i \in 0 .. cap - 1 |-> 0]

\* the cursor masked with CAP instead of CAP - 1
AdvancePtr_MaskCap(w, cap) == BitAnd(w + 1, cap)

\* (self.write_ptr + 1) & (CAP - 1)
AdvancePtr(w, cap) == BitAnd(w + 1, cap - 1)

\* RawRingBuffer::push on a buffer held as a field
RawRingBuffer_push(rb, x, cap) ==
    [buffer |-> [rb.buffer EXCEPT ![rb.write_ptr] = x],
     write_ptr |-> AdvancePtr(rb.write_ptr, cap)]

\* indexing without the - 1: age 0 reads the slot of the next write
RawRingBuffer_index_OffByOne(buf, w, cap, offs) ==
    IF ~(offs < cap) THEN Outcome("assert", 0)
    ELSE Outcome("ok", buf[BitAnd(w + cap - offs, cap - 1)])

\* Index::index: assert!(offs < CAP); (write_ptr + CAP - offs - 1) & (CAP - 1)
RawRingBuffer_index(buf, w, cap, offs) ==
    IF ~(offs < cap) THEN Outcome("assert", 0)
    ELSE Outcome("ok", buf[BitAnd(w + cap - offs - 1, cap - 1)])

\* RawRingBuffer::get: assert!(offs <= CAP); (write_ptr - offs - 1) & (CAP - 1)
\* the subtraction is unsigned
RawRingBuffer_get(buf, w, cap, offs, checks) ==
    IF ~(offs <= cap) THEN Outcome("assert", 0)
    ELSE IF w - offs - 1 < 0 /\ checks THEN Outcome("overflow", 0)
    ELSE Outcome("ok", buf[BitAnd(WrappingSub(WrappingSub(w, offs), 1), cap - 1)])

\* the checked lookup with the range test idx <= CAP
SafeRawRingBuffer_get_Inclusive(buf, w, cap, idx) ==
    IF idx <= cap
    THEN LET o == RawRingBuffer_index(buf, w, cap, idx)
         IN  IF o.kind = "ok" THEN Outcome("some", o.val) ELSE o
    ELSE Outcome("none", 0)

\* SafeRawRingBuffer::get
SafeRawRingBuffer_get(buf, w, cap, idx) ==
    IF idx < cap
    THEN LET o == RawRingBuffer_index(buf, w, cap, idx)
         IN  IF o.kind = "ok" THEN Outcome("some", o.val) ELSE o
    ELSE Outcome("none", 0)

Ret(op, arg, o) == [op |-> op, arg |-> arg, kind |-> o.kind, val |-> o.val]

Halted == IsPanic(ret)

RingInit ==
    /\ CAP \in 0 .. MaxCap
    /\ kind = "none"
    /\ buffer = << >>
    /\ write_ptr = 0
    /\ pushed = << >>
    /\ ret = Ret("none", 0, Outcome("unit", 0))

\* RawRingBuffer::<CAP>::new()
New ==
    /\ kind = "none"
    /\ IF CapIsPowerOfTwo(CAP)
       THEN /\ kind' = "raw"
            /\ buffer' = EmptyBuffer(CAP)
            /\ write_ptr' = 0
            /\ ret' = Ret("new", CAP, Outcome("ok", 0))
       ELSE /\ kind' = "raw_failed"
            /\ ret' = Ret("new", CAP, Outcome("assert", 0))
            /\ UNCHANGED <<buffer, write_ptr>>
    /\ UNCHANGED <<CAP, pushed, overflow_checks, dftVars, invVars, fftVars, extVars>>

\* SafeRawRingBuffer::<CAP>::new()
SafeNew ==
    /\ kind = "none"
    /\ IF CapIsPowerOfTwo(CAP)
       THEN /\ kind' = "safe"
            /\ buffer' = EmptyBuffer(CAP)
            /\ write_ptr' = 0
            /\ ret' = Ret("safe_new", CAP, Outcome("some", 0))
       ELSE /\ kind' = "safe_failed"
            /\ ret' = Ret("safe_new", CAP, Outcome("none", 0))
            /\ UNCHANGED <<buffer, write_ptr>>
    /\ UNCHANGED <<CAP, pushed, overflow_checks, dftVars, invVars, fftVars, extVars>>

\* RawRingBuffer::push, also reached through SafeRawRingBuffer::push
Push(x) ==
    /\ kind \in {"raw", "safe"}
    /\ ~Halted
    /\ Len(pushed) < MaxPushes
    /\ LET rb == RawRingBuffer_push([buffer |-> buffer, write_ptr |-> write_ptr], x, CAP)
       IN  buffer' = rb.buffer /\ write_ptr' = rb.write_ptr
    /\ pushed' = Append(pushed, x)
    /\ ret' = Ret("push", x, Outcome("unit", 0))
    /\ UNCHANGED <<CAP, kind, overflow_checks, dftVars, invVars, fftVars, extVars>>

\* RawRingBuffer::get(offs)
Get(offs) ==
    /\ kind = "raw"
    /\ ~Halted
    /\ ret' = Ret("get", offs, RawRingBuffer_get(buffer, write_ptr, CAP, offs, overflow_checks))
    /\ UNCHANGED <<CAP, kind, buffer, write_ptr, pushed, overflow_checks>>
    /\ UNCHANGED <<dftVars, invVars, fftVars, extVars>>

\* buf[offs]
Index(offs) ==
    /\ kind = "raw"
    /\ ~Halted
    /\ ret' = Ret("index", offs, RawRingBuffer_index(buffer, write_ptr, CAP, offs))
    /\ UNCHANGED <<CAP, kind, buffer, write_ptr, pushed, overflow_checks>>
    /\ UNCHANGED <<dftVars, invVars, fftVars, extVars>>

\* SafeRawRingBuffer::get(idx)
SafeGet(idx) ==
    /\ kind = "safe"
    /\ ~Halted
    /\ ret' = Ret("safe_get", idx, SafeRawRingBuffer_get(buffer, write_ptr, CAP, idx))
    /\ UNCHANGED <<CAP, kind, buffer, write_ptr, pushed, overflow_checks>>
    /\ UNCHANGED <<dftVars, invVars, fftVars, extVars>>

RingIdle ==
    /\ CAP = 0
    /\ kind = "none"
    /\ buffer = << >>
    /\ write_ptr = 0
    /\ pushed = << >>
    /\ ret = Ret("none", 0, Outcome("unit", 0))

---------------------------------------------------------------------------
(* Complex numbers: (f64, f64) pairs, here pairs of integers <<re, im>> *)

c_add(a, b) == <<a[1] + b[1], a[2] + b[2]>>

c_sub(a, b) == <<a[1] - b[1], a[2] - b[2]>>

c_mul(a, b) == <<a[1] * b[1] - a[2] * b[2], a[1] * b[2] + a[2] * b[1]>>

\* the window lengths whose rotors exp(i*2*pi*f/size) have integer
\* components, so that step is computed exactly
ExactSizes == {1, 2, 4}

\* i_exp(TAU * f / size) = (cos, sin) of f/size of a turn, in exact
\* arithmetic (the code evaluates it in f32 with fastapprox)
i_exp(f, size) ==
    LET q == ((4 * f) \div size) % 4
    IN  CASE q = 0 -> <<1, 0>>
          [] q = 1 -> <<0, 1>>
          [] q = 2 -> <<-1, 0>>
          [] q = 3 -> <<0, -1>>

---------------------------------------------------------------------------
(* SlidingDft *)

\* log2 of the capacity of input_buf and frame_buf (2048 = 2^11 in the code)
SdftCapLog == 3

SdftCap == 2 ^ SdftCapLog

\* size: 256 in SlidingDft::new, an eighth of the capacity
SdftDefaultSize == SdftCap \div 8

\* at most MaxSteps samples are streamed in one behaviour
MaxSteps == 6

\* at most MaxSetSize calls of set_size in one behaviour
MaxSetSize == 1

DftSamples == {-1, 0, 1}

\* the lengths given to set_size: 0, the exact sizes, one beyond the capacity
SizeChoices == {0} \cup ExactSizes \cup {SdftCap + 1}

DftRet(op, arg, o, len) ==
    [op |-> op, arg |-> arg, kind |-> o.kind, len |-> len, num |-> 0, den |-> 1]

\* input_buf is a RawRingBufferNoAlloc<2048>, a type the sources do not
\* define; it follows the RingBuffer contract: push writes at the cursor w
\* and advances it to (w + 1) & (C - 1)
RawRingBufferNoAlloc_push(rb, x, cap) ==
    [buffer |-> [rb.buffer EXCEPT ![rb.write_ptr] = x],
     write_ptr |-> BitAnd(rb.write_ptr + 1, cap - 1)]

\* indexing by age reads slot (w - 1 - age) mod C and fails for age >= C
RawRingBufferNoAlloc_index(rb, cap, offs) ==
    IF offs >= cap THEN Outcome("assert", 0)
    ELSE Outcome("ok", rb.buffer[(rb.write_ptr - 1 - offs) % cap])

\* SlidingDft::new
SlidingDft_new ==
    [size |-> SdftDefaultSize,
     input_buf |-> [buffer |-> EmptyBuffer(SdftCap), write_ptr |-> 0],
     frame_buf |-> [f \in 0 .. SdftCap - 1 |-> <<0, 0>>]]

DftInit ==
    /\ sdft = SlidingDft_new
    /\ inputs = << >>
    /\ resized = FALSE
    /\ n_set_size = 0
    /\ dft_ret = DftRet("new", 0, Outcome("ok", 0), 0)

DftHalted == IsPanic(dft_ret)

\* SlidingDft::set_size
SetSize(n) ==
    /\ ~DftHalted
    /\ n_set_size < MaxSetSize
    /\ n_set_size' = n_set_size + 1
    /\ IF n <= SdftCap
       THEN /\ sdft' = [sdft EXCEPT !.size = n]
            /\ dft_ret' = DftRet("set_size", n, Outcome("unit", 0), 0)
            /\ resized' = (resized \/ (inputs # << >> /\ n # sdft.size))
       ELSE /\ dft_ret' = DftRet("set_size", n, Outcome("assert", 0), 0)
            /\ UNCHANGED <<sdft, resized>>
    /\ UNCHANGED <<inputs, overflow_checks, ringVars, invVars, fftVars, extVars>>

\* the read one sample too far back
OldestSample_OffByOne(d, checks) ==
    RawRingBufferNoAlloc_index(d.input_buf, SdftCap, d.size)

\* self.input_buf[self.size - 1]: the subtraction is unsigned, and the ring
\* buffer asserts its range
OldestSample(d, checks) ==
    IF d.size - 1 < 0 /\ checks THEN Outcome("overflow", 0)
    ELSE RawRingBufferNoAlloc_index(d.input_buf, SdftCap, WrappingSub(d.size, 1))

RECURSIVE UpdateBins_RotateFirst(_, _, _, _)
\* the update with the rotation applied before the difference is added
UpdateBins_RotateFirst(fb, diff, size, f) ==
    IF f >= size THEN fb
    ELSE UpdateBins_RotateFirst(
             [fb EXCEPT ![f] = c_add(c_mul(fb[f], i_exp(f, size)), diff)],
             diff, size, f + 1)

RECURSIVE UpdateBins(_, _, _, _)
\* for f in 0..self.size { frame_buf[f] = c_mul(c_add(frame_buf[f], diff), i_exp(..)) }
UpdateBins(fb, diff, size, f) ==
    IF f >= size THEN fb
    ELSE UpdateBins([fb EXCEPT ![f] = c_mul(c_add(fb[f], diff), i_exp(f, size))],
                    diff, size, f + 1)

\* SlidingDft::step; it returns &self.frame_buf, a slice of the whole array
Step(x) ==
    /\ ~DftHalted
    /\ Len(inputs) < MaxSteps
    /\ LET old == OldestSample(sdft, overflow_checks)
       IN  IF IsPanic(old)
           THEN /\ dft_ret' = DftRet("step", x, old, 0)
                /\ UNCHANGED <<sdft, inputs>>
           ELSE /\ sdft' = [sdft EXCEPT
                      !.input_buf = RawRingBufferNoAlloc_push(sdft.input_buf, x, SdftCap),
                      !.frame_buf = UpdateBins(@, <<x - old.val, 0>>, sdft.size, 0)]
                /\ inputs' = Append(inputs, x)
                /\ dft_ret' = DftRet("step", x, Outcome("ok", 0), SdftCap)
    /\ UNCHANGED <<resized, n_set_size, overflow_checks, ringVars, invVars, fftVars, extVars>>

---------------------------------------------------------------------------
(* inverse_dft *)

RECURSIVE AddEveryOther(_, _, _)
\* for item in frame.iter().skip(i).step_by(2) { accum = c_add(accum, *item) }
\* (fr is the slice as a sequence: fr[i + 1] is frame[i])
AddEveryOther(fr, i, accum) ==
    IF i >= Len(fr) THEN accum
    ELSE AddEveryOther(fr, i + 2, c_add(accum, fr[i + 1]))

RECURSIVE SubEveryOther(_, _, _)
\* for item in frame.iter().skip(i).step_by(2) { accum = c_sub(accum, *item) }
SubEveryOther(fr, i, accum) ==
    IF i >= Len(fr) THEN accum
    ELSE SubEveryOther(fr, i + 2, c_sub(accum, fr[i + 1]))

\* the reconstruction with every bin added, none subtracted
inverse_dft_AllAdded(fr) ==
    LET accum == AddEveryOther(fr, 1, AddEveryOther(fr, 0, <<0, 0>>))
    IN  [kind |-> IF Len(fr) = 0 THEN "nan" ELSE "ok",
         num |-> accum[1], den |-> Len(fr)]

\* inverse_dft: accum.0 / frame.len() as f64, the quotient kept as the
\* fraction num / den; 0.0 / 0.0 is NaN in f64, not a failure
inverse_dft(fr) ==
    LET accum == SubEveryOther(fr, 1, AddEveryOther(fr, 0, <<0, 0>>))
    IN  [kind |-> IF Len(fr) = 0 THEN "nan" ELSE "ok",
         num |-> accum[1], den |-> Len(fr)]

\* the slice that step returned: &self.frame_buf
ReturnedFrame == [i \in 1 .. dft_ret.len |-> sdft.frame_buf[i - 1]]

\* inverse_dft(sdft.step(..)), as in the benchmark
Reconstruct ==
    /\ dft_ret.op = "step"
    /\ dft_ret.kind = "ok"
    /\ LET r == inverse_dft(ReturnedFrame)
       IN  dft_ret' = [dft_ret EXCEPT !.op = "inverse_dft", !.kind = r.kind,
                                      !.num = r.num, !.den = r.den]
    /\ UNCHANGED <<sdft, inputs, resized, n_set_size, overflow_checks, ringVars, invVars, fftVars, extVars>>

\* longest frame given to a stand-alone inverse_dft call
MaxFrameLen == 3

Bins == {<<re, im>> : re \in {-1, 0, 1}, im \in {-1, 0, 1}}

RECURSIVE Frames(_)
\* every frame of n bins
Frames(n) ==
    IF n = 0 THEN { << >> }
    ELSE {Append(fr, b) : fr \in Frames(n - 1), b \in Bins}

InvInit ==
    /\ frame \in UNION {Frames(n) : n \in 0 .. MaxFrameLen}
    /\ inv_ret = [op |-> "none", kind |-> "ok", num |-> 0, den |-> 1]

InvIdle ==
    /\ frame = << >>
    /\ inv_ret = [op |-> "none", kind |-> "ok", num |-> 0, den |-> 1]

\* inverse_dft(&frame)
InverseDft ==
    /\ inv_ret.op = "none"
    /\ LET r == inverse_dft(frame)
       IN  inv_ret' = [op |-> "inverse_dft", kind |-> r.kind, num |-> r.num, den |-> r.den]
    /\ UNCHANGED <<frame, overflow_checks, ringVars, dftVars, fftVars, extVars>>

---------------------------------------------------------------------------
(* FftCore *)

WindowModes == {"Box", "Triangular", "Welch", "Hann", "BlackmanHarris", "Nuttal",
                "Kaiser", "FlatTop"}

OverlapPolicies == {"Off", "Eco", "Default", "FlatAmplitude", "FlatPower"}

\* OVERLAPS, each ratio in ten-thousandths, row by row
OVERLAPS ==
    <<    0,    0,    0,    0,
       5000, 5000, 5000, 8325,
       2930, 2930, 7100, 4600,
       5000, 5000, 5000, 6667,
       5000, 6610, 7400, 8200,
       5000, 6120, 6500, 7800,
       5000, 6190, 6900, 7900,
       5000, 6667, 6667, 8000 >>

\* the buffers of FftCore (buf_top has one cursor for each)
NumBufs == 6

\* length of one accumulation buffer
FftBufLen == 4096

\* the analysis sizes tried: every small one, the ones where the product of
\* apply_config is a whole number that f64 misses, and the buffer length
MaxSmallSize == 8

FftSizes == (0 .. MaxSmallSize) \cup {150, 256, 300, FftBufLen, FftBufLen + 1}

PolicyCol_EcoIsFlatPower(policy) ==
    CASE policy = "Off" -> -1
      [] policy = "Eco" -> 3
      [] policy = "Default" -> 1
      [] policy = "FlatAmplitude" -> 2
      [] policy = "FlatPower" -> 3

PolicyCol(policy) ==
    CASE policy = "Off" -> -1
      [] policy = "Eco" -> 0
      [] policy = "Default" -> 1
      [] policy = "FlatAmplitude" -> 2
      [] policy = "FlatPower" -> 3

WindowRow(win) ==
    CASE win = "Box" -> 0
      [] win = "Triangular" -> 1
      [] win = "Welch" -> 2
      [] win = "Hann" -> 3
      [] win = "BlackmanHarris" -> 4
      [] win = "Nuttal" -> 5
      [] win = "Kaiser" -> 6
      [] win = "FlatTop" -> 7

\* The f64 nearest to the literal of entry i is M / 2^(53 + OVERLAPS_exp[i])
\* with M a 53-bit integer
OVERLAPS_exp ==
    << 0, 0, 0, 0,
       0, 0, 0, 0,
       1, 1, 0, 1,
       0, 0, 0, 0,
       0, 0, 0, 0,
       0, 0, 0, 0,
       0, 0, 0, 0,
       0, 0, 0, 0 >>

\* and OVERLAPS[i] * 2^(53 + OVERLAPS_exp[i]) - 10000 * M is what the literal
\* loses by being stored as an f64 (positive: the f64 is below the literal)
OVERLAPS_err ==
    <<    0,     0,     0,     0,
          0,     0,     0, -1600,
       3120,  3120,  3200, -3600,
          0,     0,     0,  3664,
          0, -2880,   800,  4400,
          0,  1040, -2000, -2400,
          0,   480,  4800, -3200,
          0,  3664,  3664, -4000 >>

overlap_size_RoundsUp(i, size) == (OVERLAPS[i] * size + 9999) \div 10000

RECURSIVE Pow2(_)
Pow2(n) == IF n <= 0 THEN 1 ELSE 2 * Pow2(n - 1)

RECURSIVE Log2Floor(_)
\* floor(log2(n)), n >= 1
Log2Floor(n) == IF n <= 1 THEN 0 ELSE 1 + Log2Floor(n \div 2)

\* (OVERLAPS[i] * size as f64) as usize, i counted from 1: the f64 product
\* rounded to nearest, ties to even, then truncated. The product is within
\* 2^-40 of size * OVERLAPS[i]; truncation differs from the floor of the
\* exact product only when that is a whole number k and the f64 product
\* rounds to the f64 just below k, which is k - 2^(kb - 52) with
\* kb = floor(log2) of the numbers just below k.
overlap_size(i, size) ==
    LET k   == (OVERLAPS[i] * size) \div 10000
        rem == (OVERLAPS[i] * size) % 10000
        err == OVERLAPS_err[i]
        kb  == IF k >= 2 THEN Log2Floor(k - 1) ELSE -1
        sh  == OVERLAPS_exp[i] + kb
    IN  IF rem # 0 \/ err <= 0 \/ k = 0 THEN k
        ELSE IF size * err * Pow2(-sh) <= 10000 * Pow2(sh) THEN k
        ELSE k - 1

apply_config_HopIsOverlap(c) ==
    LET col == PolicyCol(c.overlap_policy)
        row == WindowRow(c.window_mode)
    IN  IF col = -1 THEN [c EXCEPT !.frame_gap = c.size]
        ELSE [c EXCEPT !.frame_gap = overlap_size(col + row * 4 + 1, c.size)]

\* FftCore::apply_config (OVERLAPS is indexed from 0 in the code)
apply_config(c) ==
    LET col == PolicyCol(c.overlap_policy)
        row == WindowRow(c.window_mode)
    IN  IF col = -1 THEN [c EXCEPT !.frame_gap = c.size]
        ELSE [c EXCEPT !.frame_gap = c.size - overlap_size(col + row * 4 + 1, c.size)]

FftRet(op, arg, o) == [op |-> op, arg |-> arg, kind |-> o.kind, val |-> o.val]

\* cursors of a stream in progress are tried up to MaxCursor
MaxCursor == 3

\* at most MaxFed samples are fed to a fresh engine
MaxFed == 5

NoCursors == [b \in 0 .. NumBufs - 1 |-> 0]

\* a fresh engine: nothing accumulated, nothing to report
Fresh(c) == c.buf_top = NoCursors /\ c.first_gap_counter = 0 /\ ~c.is_updated

\* FftCore has no constructor in the code: the engine starts from any
\* configuration apply_config leaves, either fresh or in the middle of a
\* stream (buf_top counts up to the size of the window, then is reset)
FftInit ==
    /\ \E c \in [size : FftSizes \ {FftBufLen + 1}, frame_gap : {0},
                 first_gap_counter : {0},
                 buf_top : {[NoCursors EXCEPT ![0] = t] : t \in 0 .. MaxCursor},
                 leading_buf : {0}, highest_buf : {0}, window_mode : WindowModes,
                 overlap_policy : OverlapPolicies, out_buf : {<<d>> : d \in Samples},
                 fft_buf : {<< <<d, 0>> >> : d \in Samples},
                 is_updated : BOOLEAN] :
          /\ c.buf_top[0] < c.size \/ c.buf_top[0] = 0
          /\ c.is_updated \/ c.out_buf = <<0>>
          /\ c.fft_buf[1][1] = c.out_buf[1]
          /\ fft_core = apply_config(c)
    /\ fft_ret = FftRet("none", 0, Outcome("unit", 0))
    /\ fed = IF Fresh(fft_core) THEN 0 ELSE -1

FftIdle ==
    /\ fft_core = [size |-> 0, frame_gap |-> 0, first_gap_counter |-> 0,
                   buf_top |-> NoCursors, leading_buf |-> 0,
                   highest_buf |-> 0, window_mode |-> "Box",
                   overlap_policy |-> "Off", out_buf |-> <<0>>,
                   fft_buf |-> << <<0, 0>> >>, is_updated |-> FALSE]
    /\ fft_ret = FftRet("none", 0, Outcome("unit", 0))
    /\ fed = -1

\* the count of samples goes on only while nothing has been fed
AfterConfig == IF fed = 0 THEN 0 ELSE -1

\* FftCore::set_size
FftSetSize(n) ==
    /\ fft_core' = apply_config([fft_core EXCEPT !.size = n])
    /\ fft_ret' = FftRet("set_size", n, Outcome("unit", 0))
    /\ fed' = AfterConfig
    /\ UNCHANGED <<overflow_checks, ringVars, dftVars, invVars, extVars>>

\* FftCore::set_win_type
SetWinType(win) ==
    /\ fft_core' = apply_config([fft_core EXCEPT !.window_mode = win])
    /\ fft_ret' = FftRet("set_win_type", 0, Outcome("unit", 0))
    /\ fed' = AfterConfig
    /\ UNCHANGED <<overflow_checks, ringVars, dftVars, invVars, extVars>>

\* FftCore::set_overlap_policy
SetOverlapPolicy(policy) ==
    /\ fft_core' = apply_config([fft_core EXCEPT !.overlap_policy = policy])
    /\ fft_ret' = FftRet("set_overlap_policy", 0, Outcome("unit", 0))
    /\ fed' = AfterConfig
    /\ UNCHANGED <<overflow_checks, ringVars, dftVars, invVars, extVars>>

IsUpdated_NoClear ==
    /\ fft_core' = fft_core
    /\ fft_ret' = FftRet("is_updated", 0,
                         Outcome("ok", IF fft_core.is_updated THEN 1 ELSE 0))
    /\ UNCHANGED <<fed, overflow_checks, ringVars, dftVars, invVars, extVars>>

IsUpdated_ClearsOutput ==
    /\ fft_core' = [fft_core EXCEPT !.is_updated = FALSE, !.out_buf = <<0>>]
    /\ fft_ret' = FftRet("is_updated", 0,
                         Outcome("ok", IF fft_core.is_updated THEN 1 ELSE 0))
    /\ UNCHANGED <<fed, overflow_checks, ringVars, dftVars, invVars, extVars>>

\* FftCore::is_updated
IsUpdated ==
    /\ fft_core' = [fft_core EXCEPT !.is_updated = FALSE]
    /\ fft_ret' = FftRet("is_updated", 0,
                         Outcome("ok", IF fft_core.is_updated THEN 1 ELSE 0))
    /\ UNCHANGED <<fed, overflow_checks, ringVars, dftVars, invVars, extVars>>

\* FftCore::in_stream is a stub without a body: feeding a sample changes no
\* field of the engine
InStream(x) ==
    /\ fed < MaxFed
    /\ fft_core' = fft_core
    /\ fft_ret' = FftRet("in_stream", x, Outcome("unit", 0))
    /\ fed' = IF fed < 0 THEN fed ELSE fed + 1
    /\ UNCHANGED <<overflow_checks, ringVars, dftVars, invVars, extVars>>

---------------------------------------------------------------------------
(* ProcessChain and chain! *)

\* at most MaxPipes processes are stepped by chains in one behaviour
MaxPipes == 3

\* chain! is tried with up to MaxMacroLen processes
MaxMacroLen == 2

\* the processes at hand: AddOne (doc example of chain!), Diff, Integ and
\* EmptyProcess, each as its constructor leaves it
ProcIds == 1 .. 4

NewProcs ==
    <<[kind |-> "AddOne", z |-> 0], [kind |-> "Diff", z |-> 0],
      [kind |-> "Integ", z |-> 0], [kind |-> "EmptyProcess", z |-> 0]>>

\* Process::step of one process: the output and the process afterwards
Process_step(p, input) ==
    CASE p.kind = "EmptyProcess" -> [out |-> input, proc |-> p]
      [] p.kind = "AddOne" -> [out |-> input + 1, proc |-> p]
      [] p.kind = "Diff" -> [out |-> input - p.z, proc |-> [p EXCEPT !.z = input]]
      [] p.kind = "Integ" -> [out |-> input + p.z, proc |-> [p EXCEPT !.z = input + p.z]]

ProcessChain_pipe_StepsInput(c, next, input) ==
    LET r == Process_step(next, input)
    IN  [chain |-> [alive |-> TRUE, bus_value |-> r.out], proc |-> r.proc]

\* ProcessChain::pipe: the new chain and the process after its step
\* (input is what ProcessChain::new was given)
ProcessChain_pipe(c, next, input) ==
    LET r == Process_step(next, c.bus_value)
    IN  [chain |-> [alive |-> TRUE, bus_value |-> r.out], proc |-> r.proc]

RECURSIVE chain_macro(_, _, _)
\* chain!{arg => p => tokens}: the base case is p.step(arg), the recursive
\* case is chain!(p.step(arg) => tokens); ps are the identifiers in order.
\* The value and the processes afterwards.
chain_macro(arg, ps, env) ==
    LET r == Process_step(env[Head(ps)], arg)
        after == [env EXCEPT ![Head(ps)] = r.proc]
    IN  IF Len(ps) = 1 THEN [val |-> r.out, procs |-> after]
        ELSE chain_macro(r.out, Tail(ps), after)

ChainRet(op, val) == [op |-> op, val |-> val]

NoChain == [alive |-> FALSE, bus_value |-> 0]

ChainInit ==
    /\ procs = NewProcs
    /\ chain = NoChain
    /\ chained = [input |-> 0, procs0 |-> NewProcs, piped |-> <<>>, total |-> 0]
    /\ chain_ret = ChainRet("none", 0)

ChainIdle == ChainInit

\* ProcessChain::new
ChainNew(input) ==
    /\ chain' = [alive |-> TRUE, bus_value |-> input]
    /\ chained' = [chained EXCEPT !.input = input, !.procs0 = procs, !.piped = <<>>]
    /\ chain_ret' = ChainRet("new", 0)
    /\ UNCHANGED <<procs, overflow_checks, ringVars, dftVars, invVars, fftVars, delayVars, toggleVars>>

\* ProcessChain::pipe
Pipe(i) ==
    /\ chain.alive
    /\ chained.total < MaxPipes
    /\ LET r == ProcessChain_pipe(chain, procs[i], chained.input)
       IN  /\ chain' = r.chain
           /\ procs' = [procs EXCEPT ![i] = r.proc]
    /\ chained' = [chained EXCEPT !.piped = Append(@, i), !.total = @ + 1]
    /\ chain_ret' = ChainRet("pipe", 0)
    /\ UNCHANGED <<overflow_checks, ringVars, dftVars, invVars, fftVars, delayVars, toggleVars>>

\* ProcessChain::consume
Consume ==
    /\ chain.alive
    /\ chain_ret' = ChainRet("consume", chain.bus_value)
    /\ UNCHANGED <<procs, chain, chained, overflow_checks, ringVars, dftVars, invVars, fftVars, delayVars, toggleVars>>

\* the sequences of 1..n distinct identifiers
Idents(n) ==
    UNION {{ps \in [1 .. k -> ProcIds] : \A a, b \in 1 .. k : a # b => ps[a] # ps[b]} :
           k \in 1 .. n}

\* chain!{input => p1 => ... => pn}
ChainMacro(input, ps) ==
    /\ chained.total + Len(ps) <= MaxPipes
    /\ LET r == chain_macro(input, ps, procs)
       IN  /\ procs' = r.procs
           /\ chain_ret' = ChainRet("chain!", r.val)
    /\ chain' = NoChain
    /\ chained' = [input |-> input, procs0 |-> procs, piped |-> ps,
                   total |-> chained.total + Len(ps)]
    /\ UNCHANGED <<overflow_checks, ringVars, dftVars, invVars, fftVars, delayVars, toggleVars>>

---------------------------------------------------------------------------
(* DelayLine *)

\* MAX_SIZE = 2^DelayMaxSizeLog samples (2^17 in the code)
DelayMaxSizeLog == 2

MAX_SIZE == Pow2(DelayMaxSizeLog)

\* at most MaxHeads read heads and MaxDelaySteps steps in one behaviour
MaxHeads == 2

MaxDelaySteps == 2

\* sr / 1000: samples in a millisecond (44.1 in the code)
SamplesPerMs == 2

\* Offsets are held in half samples, so that floor and round differ; the
\* offsets in milliseconds given to add_head, converted to half samples by
\* offset / 1000.0 * sr: below zero, small, and around the size of the line
OffsetChoices == {-1, 1, 3, 2 * MAX_SIZE - 1, 2 * MAX_SIZE + 1}

\* and those given to set_offset
NewOffsetChoices == {1, 2 * MAX_SIZE + 1}

\* the samples fed to the line (unit_test_delay_line steps with 1.0)
DelayInputs == {1}

Gains == {1, 2}

InterpMethods == {"Truncate", "NearestNeighbor", "Linear", "Quadratic"}

\* f64::clamp / usize::clamp
Clamp(x, lo, hi) == IF x < lo THEN lo ELSE IF x > hi THEN hi ELSE x

\* the ages step reads for a head at offset a (in half samples), in the
\* order it reads them
Taps(a, mode) ==
    CASE mode = "Truncate" -> << a \div 2 >>
      [] mode = "NearestNeighbor" -> << (a + 1) \div 2 >>
      [] mode = "Linear" ->
           LET i == Clamp(a \div 2, 0, MAX_SIZE) IN <<i, i + 1>>
      [] mode = "Quadratic" ->
           LET i == Clamp(a \div 2, 1, MAX_SIZE) IN <<i - 1, i, i + 1>>

RECURSIVE Concat(_)
Concat(ss) == IF ss = <<>> THEN <<>> ELSE Head(ss) \o Concat(Tail(ss))

\* every age one step reads, head by head
AllTaps(d) == Concat([h \in 1 .. Len(d.head_offsets) |-> Taps(d.head_offsets[h], d.interp_mode)])

DelayRet(op, arg, knd, val) == [op |-> op, arg |-> arg, kind |-> knd, val |-> val]

\* DelayLine::new
DelayInit ==
    /\ delay \in [vector : {[buffer |-> EmptyBuffer(MAX_SIZE), write_ptr |-> 0]},
                  head_offsets : {<<>>}, head_gains : {<<>>},
                  interp_mode : InterpMethods]
    /\ delay_steps = 0
    /\ delay_ret = DelayRet("new", 0, "ok", 0)

DelayIdle ==
    /\ delay = [vector |-> [buffer |-> <<>>, write_ptr |-> 0], head_offsets |-> <<>>,
                head_gains |-> <<>>, interp_mode |-> "Truncate"]
    /\ delay_steps = 0
    /\ delay_ret = DelayRet("none", 0, "ok", 0)

DelayHalted == delay_ret.kind = "assert"

\* DelayLine::add_head
AddHead(offset, gain) ==
    /\ ~DelayHalted
    /\ Len(delay.head_offsets) < MaxHeads
    /\ delay' = [delay EXCEPT
                   !.head_offsets = Append(@, Clamp(offset, 0, 2 * MAX_SIZE)),
                   !.head_gains = Append(@, gain)]
    /\ delay_ret' = DelayRet("add_head", 0, "ok", Len(delay.head_offsets) + 1 - 1)
    /\ UNCHANGED <<delay_steps, overflow_checks, ringVars, dftVars, invVars, fftVars, chainVars, toggleVars>>

\* Vec::remove
RemoveAt(sq, index) == [j \in 1 .. Len(sq) - 1 |-> IF j <= index THEN sq[j] ELSE sq[j + 1]]

remove_head_GainsKept(d, index) ==
    IF index < Len(d.head_offsets)
    THEN [delay |-> [d EXCEPT !.head_offsets = RemoveAt(@, index),
                              !.head_gains = RemoveAt(@, Len(@) - 1)],
          val |-> TRUE]
    ELSE [delay |-> d, val |-> FALSE]

\* DelayLine::remove_head (index counts from 0)
remove_head(d, index) ==
    IF index < Len(d.head_offsets)
    THEN [delay |-> [d EXCEPT !.head_offsets = RemoveAt(@, index),
                              !.head_gains = RemoveAt(@, index)],
          val |-> TRUE]
    ELSE [delay |-> d, val |-> FALSE]

RemoveHead(index) ==
    /\ ~DelayHalted
    /\ LET r == remove_head(delay, index)
       IN  /\ delay' = r.delay
           /\ delay_ret' = DelayRet("remove_head", index, "ok", r.val)
    /\ UNCHANGED <<delay_steps, overflow_checks, ringVars, dftVars, invVars, fftVars, chainVars, toggleVars>>

\* DelayLine::set_offset: the clamped offset, already in samples, is
\* converted once more when it is stored
SetOffset(index, offset) ==
    /\ ~DelayHalted
    /\ LET clamped == Clamp(offset, 0, 2 * MAX_SIZE)
       IN  IF index < Len(delay.head_offsets)
           THEN /\ delay' = [delay EXCEPT !.head_offsets[index + 1] = clamped * SamplesPerMs]
                /\ delay_ret' = DelayRet("set_offset", index, "ok", TRUE)
           ELSE /\ delay' = delay
                /\ delay_ret' = DelayRet("set_offset", index, "ok", FALSE)
    /\ UNCHANGED <<delay_steps, overflow_checks, ringVars, dftVars, invVars, fftVars, chainVars, toggleVars>>

\* DelayLine::step: the heads are read first, each lookup through Index of
\* RawRingBuffer, then the input is pushed. The mixed sample is not
\* computed: the result holds how many lookups were made.
DelayStep(input) ==
    /\ ~DelayHalted
    /\ delay_steps < MaxDelaySteps
    /\ LET taps == AllTaps(delay)
           bad  == {t \in 1 .. Len(taps) :
                      IsPanic(RawRingBuffer_index(delay.vector.buffer, delay.vector.write_ptr,
                                                  MAX_SIZE, taps[t]))}
       IN  IF bad # {}
           THEN /\ delay_ret' = DelayRet("step", input, "assert", Len(taps))
                /\ UNCHANGED <<delay, delay_steps>>
           ELSE /\ delay' = [delay EXCEPT !.vector = RawRingBuffer_push(@, input, MAX_SIZE)]
                /\ delay_steps' = delay_steps + 1
                /\ delay_ret' = DelayRet("step", input, "ok", Len(taps))
    /\ UNCHANGED <<overflow_checks, ringVars, dftVars, invVars, fftVars, chainVars, toggleVars>>

---------------------------------------------------------------------------
(* RandomCore, NoiseWhite, RandomToggle *)

\* a u64 is held as the set of the positions of its 1 bits, bit 0 the lowest
U64 == 0 .. 63

RECURSIVE BitOf(_, _)
BitOf(n, i) == IF i = 0 THEN n % 2 ELSE BitOf(n \div 2, i - 1)

\* a small number as a u64
ToU64(n) == {i \in 0 .. 10 : BitOf(n, i) = 1}

Shl(v, n) == {i + n : i \in {j \in v : j + n <= 63}}

Shr(v, n) == {i - n : i \in {j \in v : j >= n}}

Xor(a, b) == (a \ b) \cup (b \ a)

\* RandomCore::next
RandomCore_next(state) ==
    LET s1 == Xor(state, Shl(state, 13))
        s2 == Xor(s1, Shr(s1, 7))
    IN  Xor(s2, Shl(s2, 17))

RECURSIVE Skip(_, _)
Skip(state, n) == IF n = 0 THEN state ELSE Skip(RandomCore_next(state), n - 1)

\* RandomCore::reseed, seed a u8
RandomCore_reseed(seed) ==
    LET start_state == seed % 16
        skips == (seed \div 16) + 1
    IN  Skip(ToU64(start_state + 1), skips)

\* bits k .. k + n - 1 of v as a number
RECURSIVE Field(_, _, _)
Field(v, k, n) ==
    IF n = 0 THEN 0 ELSE (IF k \in v THEN 1 ELSE 0) + 2 * Field(v, k + 1, n - 1)

\* NoiseWhite::step: bits = next >> 11, masked to the 52 bits of the
\* mantissa, with 0b01111111110 = 1022 in the exponent; the f64 of these
\* bits is 2^(exponent - 1023) * (1 + mantissa / 2^52), negative when bit 63
\* is set. The sample is that f64 * 2.0 - 1.0, held as its sign, its
\* exponent field and the two highest bits of its mantissa: with sign 0 and
\* exponent 1022 the sample is mantissa / 2^52 and quarter = floor(4 * sample).
NoiseWhite_step(rng) ==
    LET state  == RandomCore_next(rng)
        masked == Shr(state, 11) \cap (0 .. 51)
        bits   == masked \cup {i + 52 : i \in ToU64(1022)}
    IN  [rng |-> state,
         nse |-> [sign |-> IF 63 \in bits THEN 1 ELSE 0, exponent |-> Field(bits, 52, 11),
                  quarter |-> Field(bits, 50, 2)]]

\* nse < p for p = p4 / 4, nse in [0, 1)
Below(nse, p4) == nse.quarter < p4

\* the probabilities tried, in quarters: 0.0, 0.25 (the default), 1.0
Probabilities == {0, 1, 4}

\* the seeds tried (the tests seed with 11 and 17)
Seeds == {0, 11, 17, 255}

\* steps of the toggle in one behaviour
MaxToggleSteps == 6

RandomToggle_step_ReturnsNew(t) ==
    LET n == NoiseWhite_step(t.rng)
        flip == IF t.toggle THEN Below(n.nse, t.p_down) ELSE Below(n.nse, t.p_up)
    IN  [toggle |-> [t EXCEPT !.rng = n.rng, !.toggle = IF flip THEN ~t.toggle ELSE t.toggle],
         out |-> IF (IF flip THEN ~t.toggle ELSE t.toggle) THEN 1 ELSE 0,
         nse |-> n.nse]

\* RandomToggle::step
RandomToggle_step(t) ==
    LET n == NoiseWhite_step(t.rng)
    IN  IF t.toggle
        THEN [toggle |-> [t EXCEPT !.rng = n.rng,
                                   !.toggle = IF Below(n.nse, t.p_down) THEN FALSE ELSE TRUE],
              out |-> 1, nse |-> n.nse]
        ELSE [toggle |-> [t EXCEPT !.rng = n.rng,
                                   !.toggle = IF Below(n.nse, t.p_up) THEN TRUE ELSE FALSE],
              out |-> 0, nse |-> n.nse]

NoNse == [sign |-> 0, exponent |-> 1022, quarter |-> 0]

ToggleRet(op, val, nse) == [op |-> op, val |-> val, nse |-> nse]

\* RandomToggle::new
ToggleInit ==
    /\ \E seed \in Seeds :
          rtoggle = [p_up |-> 1, p_down |-> 1, rng |-> RandomCore_reseed(seed), toggle |-> FALSE]
    /\ since = [set |-> 0, total |-> 0]
    /\ toggle_ret = ToggleRet("new", 0, NoNse)

ToggleIdle ==
    /\ rtoggle = [p_up |-> 1, p_down |-> 1, rng |-> ToU64(17), toggle |-> FALSE]
    /\ since = [set |-> 0, total |-> 0]
    /\ toggle_ret = ToggleRet("none", 0, NoNse)

\* toggle.p_up = ..; toggle.p_down = ..; (public fields)
SetProbabilities(up, down) ==
    /\ rtoggle' = [rtoggle EXCEPT !.p_up = up, !.p_down = down]
    /\ since' = [since EXCEPT !.set = 0]
    /\ toggle_ret' = ToggleRet("set", 0, NoNse)
    /\ UNCHANGED <<overflow_checks, ringVars, dftVars, invVars, fftVars, chainVars, delayVars>>

ToggleStep ==
    /\ since.total < MaxToggleSteps
    /\ LET r == RandomToggle_step(rtoggle)
       IN  /\ rtoggle' = r.toggle
           /\ toggle_ret' = ToggleRet("step", r.out, r.nse)
    /\ since' = [set |-> since.set + 1, total |-> since.total + 1]
    /\ UNCHANGED <<overflow_checks, ringVars, dftVars, invVars, fftVars, chainVars, delayVars>>

\* the components that take no part in a specification
ExtIdle == ChainIdle /\ DelayIdle /\ ToggleIdle

---------------------------------------------------------------------------
(* Specifications *)

\* the ring buffer
Init ==
    /\ RingInit
    /\ overflow_checks \in BOOLEAN
    /\ DftInit
    /\ InvIdle
    /\ FftIdle
    /\ ExtIdle

Next ==
    \/ New
    \/ SafeNew
    \/ \E x \in Samples : Push(x)
    \/ \E offs \in 0 .. CAP + ExtraOffs : Get(offs)
    \/ \E offs \in 0 .. CAP + ExtraOffs : Index(offs)
    \/ \E idx \in 0 .. CAP + ExtraOffs : SafeGet(idx)

Spec == Init /\ [][Next]_vars

\* the sliding transform and the reconstruction of its frames
InitDft ==
    /\ DftInit
    /\ overflow_checks \in BOOLEAN
    /\ RingIdle
    /\ InvIdle
    /\ FftIdle
    /\ ExtIdle

NextDft ==
    \/ \E n \in SizeChoices : SetSize(n)
    \/ \E x \in DftSamples : Step(x)
    \/ Reconstruct

SpecDft == InitDft /\ [][NextDft]_vars

\* inverse_dft on its own
InitInv ==
    /\ InvInit
    /\ overflow_checks = FALSE
    /\ RingIdle
    /\ DftInit
    /\ FftIdle
    /\ ExtIdle

NextInv == InverseDft

SpecInv == InitInv /\ [][NextInv]_vars

\* the block transform engine
InitFft ==
    /\ FftInit
    /\ overflow_checks = FALSE
    /\ RingIdle
    /\ DftInit
    /\ InvIdle
    /\ ExtIdle

NextFft ==
    \/ \E n \in FftSizes : FftSetSize(n)
    \/ \E win \in WindowModes : SetWinType(win)
    \/ \E policy \in OverlapPolicies : SetOverlapPolicy(policy)
    \/ IsUpdated
    \/ \E x \in Samples : InStream(x)

SpecFft == InitFft /\ [][NextFft]_vars

\* chains of processes
InitChain ==
    /\ ChainInit
    /\ overflow_checks = FALSE
    /\ RingIdle
    /\ DftInit
    /\ InvIdle
    /\ FftIdle
    /\ DelayIdle
    /\ ToggleIdle

NextChain ==
    \/ \E input \in Samples : ChainNew(input)
    \/ \E i \in ProcIds : Pipe(i)
    \/ Consume
    \/ \E input \in Samples, ps \in Idents(MaxMacroLen) : ChainMacro(input, ps)

SpecChain == InitChain /\ [][NextChain]_vars

\* the delay line
InitDelay ==
    /\ DelayInit
    /\ overflow_checks = FALSE
    /\ RingIdle
    /\ DftInit
    /\ InvIdle
    /\ FftIdle
    /\ ChainIdle
    /\ ToggleIdle

NextDelay ==
    \/ \E offset \in OffsetChoices, gain \in Gains : AddHead(offset, gain)
    \/ \E index \in 0 .. MaxHeads : RemoveHead(index)
    \/ \E index \in 0 .. MaxHeads, offset \in NewOffsetChoices : SetOffset(index, offset)
    \/ \E input \in DelayInputs : DelayStep(input)

SpecDelay == InitDelay /\ [][NextDelay]_vars

\* the random toggle
InitToggle ==
    /\ ToggleInit
    /\ overflow_checks = FALSE
    /\ RingIdle
    /\ DftInit
    /\ InvIdle
    /\ FftIdle
    /\ ChainIdle
    /\ DelayIdle

NextToggle ==
    \/ \E up \in Probabilities, down \in Probabilities : SetProbabilities(up, down)
    \/ ToggleStep

SpecToggle == InitToggle /\ [][NextToggle]_vars


---------------------------------------------------------------------------
(* Properties of the ring buffer *)

\* the value pushed i pushes ago; 0.0 when fewer than i + 1 values were pushed
Ago(i) == IF i < Len(pushed) THEN pushed[Len(pushed) - i] ELSE 0

Constructed == kind \in {"raw", "safe"}

\* the storage slot that holds age i: (w - 1 - i) mod C
SlotOfAge(i) == (write_ptr - 1 - i) % CAP

\* C1: ring addressing.  Once CAP + k values (k >= 0) have been pushed,
\* storage slot (w - 1 - i) mod CAP holds the value pushed i pushes ago for
\* every age i < CAP, and buf[i] returns exactly that value without failing
\* (age 0 the newest, age CAP - 1 the oldest value still resident).
C1_RingAddressing ==
    (Constructed /\ Len(pushed) >= CAP) =>
        /\ \A i \in 0 .. CAP - 1 : buffer[SlotOfAge(i)] = Ago(i)
        /\ (ret.op = "index" /\ ret.arg < CAP) =>
               (ret.kind = "ok" /\ ret.val = Ago(ret.arg))

\* a buffer of capacity 4 that has wrapped, read at its oldest age
C1_Witness ==
    /\ kind = "raw" /\ CAP = 4 /\ Len(pushed) = CAP + 1
    /\ pushed[1] = 0 /\ pushed[2] = 1
    /\ ret.op = "index" /\ ret.arg = CAP - 1 /\ ret.val = 1

\* C2: in every state and for every offs < CAP, get(offs) completes and
\* returns what buf[offs] returns.
C2_GetAgreesWithIndex ==
    (ret.op = "get" /\ ret.arg < CAP) =>
        /\ ret.kind = "ok"
        /\ ret.val = RawRingBuffer_index(buffer, write_ptr, CAP, ret.arg).val

\* C3: for every age >= CAP, get(age) and buf[age] both fail on the range
\* assertion.
C3_OutOfRangeFailsOnAssert ==
    (ret.op \in {"get", "index"} /\ ret.arg >= CAP) => ret.kind = "assert"

\* C4: SafeRawRingBuffer::get never fails; it returns None exactly for
\* idx >= CAP and otherwise Some(the value pushed idx pushes ago, 0.0 if
\* there is none); the lookup leaves the buffer as it was.
C4_SafeGet ==
    /\ [](ret.op = "safe_get" =>
            /\ ret.kind \in {"some", "none"}
            /\ (ret.kind = "none") <=> (ret.arg >= CAP)
            /\ (ret.arg < CAP) => (ret.val = Ago(ret.arg)))
    /\ [][ret'.op = "safe_get" =>
            UNCHANGED <<CAP, kind, buffer, write_ptr, pushed>>]_vars

\* a wrapped buffer of capacity 4 answering Some(1) for its oldest age
C4_Witness ==
    /\ kind = "safe" /\ CAP = 4 /\ Len(pushed) = CAP + 1
    /\ pushed[1] = 0 /\ pushed[2] = 1
    /\ ret.op = "safe_get" /\ ret.arg = CAP - 1
    /\ ret.kind = "some" /\ ret.val = 1

\* the powers of two, by definition
IsPowerOfTwo(n) == \E e \in 0 .. n : n = 2 ^ e

\* C5: construction succeeds if and only if the capacity is a non-zero power
\* of two: otherwise RawRingBuffer::new fails on its assertion and
\* SafeRawRingBuffer::new returns None; the bit test agrees with "is a power
\* of two" on the whole range of capacities.
C5_PowerOfTwoEnforcement ==
    /\ \A c \in 0 .. MaxCap : CapIsPowerOfTwo(c) <=> IsPowerOfTwo(c)
    /\ (kind # "none") => ((kind \in {"raw", "safe"}) <=> IsPowerOfTwo(CAP))
    /\ (kind = "raw_failed") => (ret.op = "new" /\ ret.kind = "assert")
    /\ (kind = "safe_failed") => (ret.op = "safe_new" /\ ret.kind = "none")
    /\ (kind = "raw") => (ret.op = "new" => ret.kind = "ok")
    /\ (kind = "safe") => (ret.op = "safe_new" => ret.kind = "some")

\* capacity 6 refused by the checked constructor
C5_Witness == CAP = 6 /\ kind = "safe_failed" /\ ret.kind = "none"

\* C6: the write cursor stays in [0, CAP); a push writes its sample at slot
\* w, advances w to (w + 1) mod CAP, touches no other slot and never fails.
C6_WriteCursor ==
    /\ [](Constructed => write_ptr \in 0 .. CAP - 1)
    /\ [][Len(pushed') = Len(pushed) + 1 =>
            /\ buffer' = [buffer EXCEPT ![write_ptr] = pushed'[Len(pushed')]]
            /\ write_ptr' = (write_ptr + 1) % CAP
            /\ ret'.op = "push" /\ ~IsPanic(ret')]_vars

\* the cursor of a capacity-4 buffer back at slot 1 after five pushes
C6_Witness ==
    /\ Constructed /\ CAP = 4 /\ Len(pushed) = 5 /\ write_ptr = 1
    /\ pushed[5] = 1 /\ buffer[0] = 1 /\ ret.op = "push"

---------------------------------------------------------------------------
(* Properties of the sliding transform and of inverse_dft *)

\* sample number t of the stream (1 = first); 0 before the stream began
SampleAt(t) == IF t >= 1 /\ t <= Len(inputs) THEN inputs[t] ELSE 0

\* exp(-i*2*pi/N), the conjugate of the primitive N-th root of unity
ConjRoot(N) ==
    CASE N = 1 -> <<1, 0>>
      [] N = 2 -> <<-1, 0>>
      [] N = 4 -> <<0, -1>>

RECURSIVE CPow(_, _)
CPow(z, e) == IF e = 0 THEN <<1, 0>> ELSE c_mul(z, CPow(z, e - 1))

RECURSIVE DftSum(_, _, _)
\* sum over m' < m of x[n - N + 1 + m'] * exp(-i*2*pi*k*m'/N)
DftSum(k, N, m) ==
    IF m = 0 THEN <<0, 0>>
    ELSE c_add(DftSum(k, N, m - 1),
               c_mul(<<SampleAt(Len(inputs) - N + m), 0>>, CPow(ConjRoot(N), k * (m - 1))))

\* the discrete transform of the last N samples at bin k, from scratch
BruteForceDft(k, N) == DftSum(k, N, N)

\* C7: from a fresh SlidingDft with the window length held fixed, after any
\* number of steps accumulator k (0 <= k < N) equals the discrete transform
\* of the last N input samples at bin k, samples before the start of the
\* stream counted as 0.
C7_SlidingInvariant ==
    (~resized /\ sdft.size \in ExactSizes) =>
        \A k \in 0 .. sdft.size - 1 :
            sdft.frame_buf[k] = BruteForceDft(k, sdft.size)

\* N = 4 after five samples, the first of which, a non-zero one, has left
\* the window
C7_Witness ==
    /\ ~resized /\ sdft.size = 4 /\ Len(inputs) = 5
    /\ inputs[1] = 1 /\ inputs[5] = -1
    /\ sdft.frame_buf[1] # <<0, 0>>
    /\ dft_ret.op = "step"

\* C8: a window length beyond the backing capacity is refused and no engine
\* is left configured with it: SlidingDft::set_size(n) fails for n above
\* the capacity, and so does the block engine's set_size(n) for n above the
\* length of its accumulation buffers.
C8_OversizeRejected ==
    /\ (dft_ret.op = "set_size" /\ dft_ret.arg > SdftCap) => dft_ret.kind = "assert"
    /\ sdft.size <= SdftCap
    /\ (fft_ret.op = "set_size" /\ fft_ret.arg > FftBufLen) => fft_ret.kind = "assert"
    /\ fft_core.size <= FftBufLen

RECURSIVE AlternatingSum(_, _)
\* Re(fr[1]) - Re(fr[2]) + Re(fr[3]) - ... over the first n bins
AlternatingSum(fr, n) ==
    IF n = 0 THEN 0
    ELSE AlternatingSum(fr, n - 1) + (IF n % 2 = 1 THEN fr[n][1] ELSE -fr[n][1])

\* C9: for every frame of N >= 1 bins inverse_dft returns (sum of the real
\* parts at even indices - sum of the real parts at odd indices) / N, and
\* it changes neither the frame nor anything else.
C9_InverseDftPure ==
    /\ []((inv_ret.op = "inverse_dft" /\ Len(frame) >= 1) =>
            /\ inv_ret.kind = "ok"
            /\ inv_ret.num = AlternatingSum(frame, Len(frame))
            /\ inv_ret.den = Len(frame))
    /\ [][inv_ret'.op = "inverse_dft" =>
            UNCHANGED <<frame, overflow_checks, ringVars, dftVars, fftVars>>]_vars

\* three bins (1 + i, 1, 1 - i) reconstructed to 1/3
C9_Witness ==
    /\ frame = << <<1, 1>>, <<1, 0>>, <<1, -1>> >>
    /\ inv_ret.op = "inverse_dft" /\ inv_ret.num = 1 /\ inv_ret.den = 3

\* C10: the frame that step returns is the N bins of the configured window
\* length and nothing more, so inverse_dft applied to it divides by N.
C10_FrameIsNBins ==
    /\ (dft_ret.op = "step" /\ dft_ret.kind = "ok") => dft_ret.len = sdft.size
    /\ (dft_ret.op = "inverse_dft") => dft_ret.den = sdft.size

\* the sinusoid 0, 1, 0, -1, ... of period 4, aligned to bin 1 of N = 4
Sinusoid(t) ==
    CASE (t - 1) % 4 = 0 -> 0
      [] (t - 1) % 4 = 1 -> 1
      [] (t - 1) % 4 = 2 -> 0
      [] (t - 1) % 4 = 3 -> -1

StreamIsSinusoid == \A t \in 1 .. Len(inputs) : inputs[t] = Sinusoid(t)

\* C11: round trip.  With N = 4 held fixed and the sinusoid 0, 1, 0, -1, ...
\* fed for at least N samples, inverse_dft of the frame that step returned
\* is the sinusoid again at its original amplitude: the quotient num / den
\* equals the sample of the sinusoid N/2 - 1 steps back (the delay of the
\* even-minus-odd reconstruction).
C11_RoundTrip ==
    (/\ dft_ret.op = "inverse_dft" /\ dft_ret.kind = "ok"
     /\ ~resized /\ sdft.size = 4
     /\ StreamIsSinusoid /\ Len(inputs) >= sdft.size) =>
        dft_ret.num = dft_ret.den * Sinusoid(Len(inputs) - (sdft.size \div 2 - 1))

---------------------------------------------------------------------------
(* Properties of the block transform engine *)

\* the documented overlap ratio of a (policy, window shape) pair, in
\* ten-thousandths; policy Off overlaps nothing
Ratio(policy, win) ==
    IF policy = "Off" THEN 0 ELSE OVERLAPS[PolicyCol(policy) + WindowRow(win) * 4 + 1]

\* N - floor(ratio * N)
Hop(policy, win, n) == n - (Ratio(policy, win) * n) \div 10000

Configured == fft_ret.op \in {"set_size", "set_win_type", "set_overlap_policy"}

\* C12: after any sequence of set_size, set_win_type and set_overlap_policy
\* calls the hop frame_gap equals N - floor(ratio * N) for the current
\* policy, window shape and N, ratio being the table entry of the pair and
\* policy Off meaning a hop of N.
C12_HopTable ==
    Configured =>
        fft_core.frame_gap = Hop(fft_core.overlap_policy, fft_core.window_mode, fft_core.size)

C15_DirtyFlag ==
    /\ [](fft_ret.op = "is_updated" => ~fft_core.is_updated)
    /\ [][fft_ret'.op = "is_updated" =>
            fft_ret'.val = (IF fft_core.is_updated THEN 1 ELSE 0)]_vars
    /\ [][(fft_ret.op = "is_updated" /\ fft_ret'.op = "is_updated") =>
            ~(fft_ret.val = 1 /\ fft_ret'.val = 1)]_vars

\* a query has reported an update
C15_Witness == fft_ret.op = "is_updated" /\ fft_ret.val = 1 /\ ~fft_core.is_updated

\* C16: polling changes nothing but the flag: is_updated leaves the
\* frequency-domain buffer, the output buffer, the fill cursors and the
\* configuration as they were.
C16_PollingFrame ==
    [][fft_ret'.op = "is_updated" =>
         [fft_core' EXCEPT !.is_updated = FALSE] = [fft_core EXCEPT !.is_updated = FALSE]]_vars

\* a poll reported data that is still in the buffers, in mid-stream
C16_Witness ==
    /\ fft_ret.op = "is_updated" /\ fft_ret.val = 1
    /\ fft_core.out_buf = <<1>> /\ fft_core.fft_buf = << <<1, 0>> >>
    /\ fft_core.buf_top[0] > 0

\* C17: with N = 4, overlap policy Off (hop = N) and the rectangular window,
\* a fresh engine fed one sample per step marks a frame ready after samples
\* 4, 8, ... and not in between.
C17_BlockCadence ==
    (/\ fft_core.size = 4 /\ fft_core.overlap_policy = "Off"
     /\ fft_core.window_mode = "Box"
     /\ fft_ret.op = "in_stream" /\ fed >= 1) =>
        (fft_core.is_updated <=> fed % 4 = 0)

\* ceil(n / h), h >= 1
CeilDiv(n, h) == (n + h - 1) \div h

\* C19: for every (overlap policy, window shape) pair and every analysis
\* size N >= 1 the hop H of apply_config is at least 1 and the buffers in
\* flight at once, ceil(N / H), fit the pool of 6 accumulation buffers, so
\* that highest_buf is a valid index of buf_top.
C19_OverlapFitsPool ==
    fft_core.size >= 1 =>
        /\ fft_core.frame_gap >= 1
        /\ CeilDiv(fft_core.size, fft_core.frame_gap) <= NumBufs
        /\ fft_core.highest_buf \in 0 .. NumBufs - 1

\* a configuration that needs the whole pool
C19_Witness ==
    /\ Configured
    /\ fft_core.size >= 1 /\ fft_core.frame_gap >= 1
    /\ CeilDiv(fft_core.size, fft_core.frame_gap) = NumBufs

Min(a, b) == IF a <= b THEN a ELSE b

\* C20: the Eco policy caps the overlap at 50%: for every window shape its
\* ratio is min(Default ratio, 0.5), so for every N >= 1 the hop satisfies
\* 2 * H >= N and at most two buffers are in flight at once.
C20_EcoCap ==
    /\ \A win \in WindowModes : Ratio("Eco", win) = Min(Ratio("Default", win), 5000)
    /\ (fft_core.overlap_policy = "Eco" /\ fft_core.size >= 1) =>
           /\ 2 * fft_core.frame_gap >= fft_core.size
           /\ fft_core.frame_gap >= 1
           /\ CeilDiv(fft_core.size, fft_core.frame_gap) <= 2

\* Eco cuts the Default overlap of a window down to half the window
C20_Witness ==
    /\ Configured
    /\ fft_core.overlap_policy = "Eco" /\ fft_core.size = FftBufLen
    /\ Ratio("Default", fft_core.window_mode) > 5000
    /\ 2 * fft_core.frame_gap = fft_core.size

\* C29: for every analysis size N >= 1, every window shape and every
\* overlap policy, apply_config leaves 1 <= H <= N: the index col + 4 * row
\* is one of the 32 entries of the overlap table, the overlap size, like
\* floor(ratio * N), is at most N - 1, and size - overlap_size does not go
\* below zero.
C29_HopBounds ==
    LET N   == fft_core.size
        col == PolicyCol(fft_core.overlap_policy)
        row == WindowRow(fft_core.window_mode)
    IN  N >= 1 =>
          /\ 1 <= fft_core.frame_gap /\ fft_core.frame_gap <= N
          /\ Len(OVERLAPS) = 32
          /\ col # -1 =>
                /\ col + 4 * row \in 0 .. Len(OVERLAPS) - 1
                /\ overlap_size(col + 4 * row + 1, N) \in 0 .. N - 1
                /\ (OVERLAPS[col + 4 * row + 1] * N) \div 10000 <= N - 1
                /\ fft_core.frame_gap = N - overlap_size(col + 4 * row + 1, N)

\* the overlap takes all of the window but one sample
C29_Witness ==
    /\ Configured
    /\ fft_core.overlap_policy # "Off" /\ fft_core.size = 5
    /\ fft_core.frame_gap = 1

---------------------------------------------------------------------------
(* Properties of the chains of processes *)

Front(sq) == SubSeq(sq, 1, Len(sq) - 1)

RECURSIVE Nested(_, _, _)
\* pn.step(... p1.step(x) ...) evaluated from the inside out, with the
\* processes as each step leaves them
Nested(ps, x, env) ==
    IF ps = <<>> THEN [val |-> x, procs |-> env]
    ELSE LET inner == Nested(Front(ps), x, env)
             pn    == ps[Len(ps)]
             r     == Process_step(inner.procs[pn], inner.val)
         IN  [val |-> r.out, procs |-> [inner.procs EXCEPT ![pn] = r.proc]]

\* C21: ProcessChain::new(x).pipe(p1)...pipe(pn).consume(), and likewise
\* chain!{x => p1 => ... => pn}, returns pn.step(... p1.step(x) ...) and
\* leaves every process as one step each, taken in that order, leaves it;
\* consume steps no process and returns the same value however often it is
\* called.
C21_ChainOrder ==
    /\ [](chain_ret.op \in {"consume", "chain!"} =>
            LET n == Nested(chained.piped, chained.input, chained.procs0)
            IN  chain_ret.val = n.val /\ procs = n.procs)
    /\ [][chain_ret'.op = "consume" =>
            /\ procs' = procs /\ chain' = chain
            /\ chain_ret.op = "consume" => chain_ret'.val = chain_ret.val]_vars

\* a chain of three steps whose order shows in the value: AddOne before
\* Integ before AddOne on a used Integ
C21_Witness ==
    /\ chain_ret.op = "consume"
    /\ Len(chained.piped) = 3
    /\ procs[chained.piped[2]].kind = "Integ"
    /\ chain_ret.val = chained.input + 2

---------------------------------------------------------------------------
(* Further properties of the transforms *)

\* C22: inverse_dft called with an empty frame (N = 0) fails at once
\* instead of returning a value.
C22_EmptyFrameFails ==
    (inv_ret.op = "inverse_dft" /\ Len(frame) = 0) => inv_ret.kind \in {"assert", "overflow"}

\* C23: the sliding-transform invariant also holds across a change of
\* window length: after set_size(n) in the middle of a stream (n different
\* from the length before, n within the capacity) and further steps,
\* accumulator k (0 <= k < n) equals the discrete transform of the last n
\* input samples at bin k.
C23_InvariantAcrossResize ==
    (resized /\ dft_ret.op = "step" /\ dft_ret.kind = "ok" /\ sdft.size \in ExactSizes) =>
        \A k \in 0 .. sdft.size - 1 :
            sdft.frame_buf[k] = BruteForceDft(k, sdft.size)

\* C27: for every window length set_size accepts (0 included) the next step
\* reads the history at age size - 1 without unsigned underflow and within
\* the capacity, so step completes.
C27_StepCompletes ==
    dft_ret.op = "step" => dft_ret.kind = "ok"

\* the first N accumulators, as the frame of the configured window
CurrentBins == [i \in 1 .. sdft.size |-> sdft.frame_buf[i - 1]]

\* C28: for an even window length N held fixed and any input, at every
\* step t >= N the even-minus-odd reconstruction of the N current
\* accumulators, divided by N, is the input sample fed N/2 - 1 steps
\* earlier (the current input for N = 2, the previous one for N = 4).
C28_ReconstructionDelay ==
    (/\ dft_ret.op = "step" /\ dft_ret.kind = "ok" /\ ~resized
     /\ sdft.size \in {2, 4} /\ Len(inputs) >= sdft.size) =>
        LET r == inverse_dft(CurrentBins)
        IN  /\ r.kind = "ok" /\ r.den = sdft.size
            /\ r.num = sdft.size * SampleAt(Len(inputs) - (sdft.size \div 2 - 1))

\* N = 4 at the sixth step: the fifth sample comes back, not the sixth
C28_Witness ==
    /\ dft_ret.op = "step" /\ dft_ret.kind = "ok" /\ ~resized
    /\ sdft.size = 4 /\ Len(inputs) = 6
    /\ inputs[5] = 1 /\ inputs[6] = -1 /\ inputs[2] = -1
    /\ inverse_dft(CurrentBins).num = 4

---------------------------------------------------------------------------
(* Properties of the delay line *)

\* every head is where add_head can put it
HeadsFromAddHead ==
    \A h \in 1 .. Len(delay.head_offsets) :
        delay.head_offsets[h] >= 0 /\ delay.head_offsets[h] <= 2 * MAX_SIZE

\* C24: step never looks up an age out of range: for heads created with
\* add_head (any offset, clamped to the size of the line) and every
\* interpolation mode, every age step reads, neighbour taps included, is
\* below MAX_SIZE, so step completes.
C24_TapsInRange ==
    HeadsFromAddHead =>
        /\ \A t \in 1 .. Len(AllTaps(delay)) : AllTaps(delay)[t] < MAX_SIZE
        /\ delay_ret.op = "step" => delay_ret.kind = "ok"

\* the heads as (offset, gain) pairs
HeadPairs(d) == [h \in 1 .. Len(d.head_offsets) |-> <<d.head_offsets[h], d.head_gains[h]>>]

\* C25: the offset list and the gain list have equal length; add_head
\* returns the index of the head it added; remove_head(i) and
\* set_offset(i, _) return true exactly when i is below the head count;
\* a successful remove_head(i) removes head i alone and shifts every later
\* head down by one, offset and gain paired; a false return changes nothing.
C25_HeadBookkeeping ==
    /\ [](Len(delay.head_offsets) = Len(delay.head_gains))
    /\ [](delay_ret.op = "add_head" => delay_ret.val = Len(delay.head_offsets) - 1)
    /\ [][delay_ret'.op \in {"remove_head", "set_offset"} =>
            /\ delay_ret'.val = (delay_ret'.arg < Len(delay.head_offsets))
            /\ ~delay_ret'.val => delay' = delay]_vars
    /\ [][(delay_ret'.op = "remove_head" /\ delay_ret'.val) =>
            LET i == delay_ret'.arg + 1
            IN  /\ Len(delay'.head_offsets) = Len(delay.head_offsets) - 1
                /\ Len(delay'.head_gains) = Len(delay.head_gains) - 1
                /\ \A j \in 1 .. Len(delay.head_offsets) - 1 :
                       HeadPairs(delay')[j] =
                           IF j < i THEN HeadPairs(delay)[j] ELSE HeadPairs(delay)[j + 1]
                /\ delay'.vector = delay.vector
                /\ delay'.interp_mode = delay.interp_mode]_vars

\* the first of two heads was removed and the second, with its own gain,
\* took its index
C25_Witness ==
    /\ delay_ret.op = "remove_head" /\ delay_ret.arg = 0 /\ delay_ret.val
    /\ delay.head_offsets = <<3>> /\ delay.head_gains = <<2>>
    /\ delay_steps >= 1

---------------------------------------------------------------------------
(* Properties of the random toggle *)

\* C26: RandomToggle is a two-state machine whose step returns the state
\* held before the transition of that step (1.0 set, 0.0 clear); with
\* p_up = 0 and p_down = 1 every step after the first returns 0.0, with
\* p_up = 1 and p_down = 0 every step after the first returns 1.0; the
\* noise drawn is always in [0, 1).
C26_Toggle ==
    /\ [][toggle_ret'.op = "step" =>
            toggle_ret'.val = (IF rtoggle.toggle THEN 1 ELSE 0)]_vars
    /\ [](toggle_ret.op = "step" =>
            /\ toggle_ret.nse.sign = 0 /\ toggle_ret.nse.exponent = 1022
            /\ toggle_ret.nse.quarter \in 0 .. 3)
    /\ []((toggle_ret.op = "step" /\ since.set >= 2 /\ rtoggle.p_up = 0 /\ rtoggle.p_down = 4)
            => toggle_ret.val = 0)
    /\ []((toggle_ret.op = "step" /\ since.set >= 2 /\ rtoggle.p_up = 4 /\ rtoggle.p_down = 0)
            => toggle_ret.val = 1)

\* as in unit_test_random_toggle: a toggle that was set is forced down and
\* reports 0.0 on the second step
C26_Witness ==
    /\ toggle_ret.op = "step" /\ toggle_ret.val = 0
    /\ since.set = 2 /\ since.total >= 4
    /\ rtoggle.p_up = 0 /\ rtoggle.p_down = 4

=============================================================================
